---- MODULE Spec2Model ----
(***************************************************************************)
(* The checkpointed batch pipeline of treatment_nccr: run_pipeline         *)
(* (main.py) over load_checkpoint / save_checkpoint / atomic_write /       *)
(* process_batch (data_utils.py).  Files are values, a DataFrame is a      *)
(* sequence of rows, and one run of run_pipeline is a program counter.     *)
(***************************************************************************)
EXTENDS Integers, Sequences, FiniteSets, TLC

(***************************************************************************)
(* Bounds of the model and constants of the program.                       *)
(***************************************************************************)
\* config.BATCH_SIZE is 40; the model runs the same loop with a small batch.
BATCH_SIZE == 2
\* One full batch and one short batch.
MaxRaw == BATCH_SIZE + 1
\* Number of successive runs of run_pipeline on the same files.
MaxRuns == 2
\* Length of a short, non-empty exception message.
ShortMsg == 1

MAX_RETRIES == 3
KEEP_BACKUPS == 5
ERR_LIMIT == 200

NoError == -1

Min(a, b) == IF a < b THEN a ELSE b

RECURSIVE Flatten(_)
Flatten(ss) == IF ss = <<>> THEN <<>> ELSE Head(ss) \o Flatten(Tail(ss))

(***************************************************************************)
(* The raw dataset: rows (unique_key, text_concat).  Keys are drawn up to  *)
(* renaming (a key is new or repeats an earlier one); a repeated key comes *)
(* with the same or with another text.                                     *)
(***************************************************************************)
Texts == 1..2

MaxKeyBefore(r, n) == IF n = 0 THEN 0
                      ELSE CHOOSE m \in {r[j].key : j \in 1..n} :
                             \A j \in 1..n : r[j].key <= m

Canonical(r) ==
    \A n \in 1..Len(r) :
        /\ r[n].key <= MaxKeyBefore(r, n - 1) + 1
        /\ (r[n].key = MaxKeyBefore(r, n - 1) + 1) => r[n].text = 1

RawDatasetsOver(T) ==
    UNION { { r \in [1..n -> [key : 1..MaxRaw, text : T]] : Canonical(r) }
            : n \in 0..MaxRaw }

KeysOf(rows) == {rows[j].key : j \in 1..Len(rows)}

DistinctKeys(rows) == \A a, b \in 1..Len(rows) : rows[a].key = rows[b].key => a = b

(***************************************************************************)
(* Files.  A file is absent or has a kind and rows:                        *)
(*   csv      written by to_csv from a non-empty DataFrame                 *)
(*   blank    written by to_csv from pd.DataFrame(): no header, read_csv   *)
(*            raises EmptyDataError                                        *)
(*   garbage  does not parse                                               *)
(*   nocol    parses, but has no extracted_drugs column                    *)
(*   partial  a write or copy that was interrupted                         *)
(*   old      a backup made before the behaviour starts                    *)
(***************************************************************************)
Absent == [kind |-> "absent", rows |-> <<>>]
Partial == [kind |-> "partial", rows |-> <<>>]
Garbage == [kind |-> "garbage", rows |-> <<>>]
OldBackup == [kind |-> "old", rows |-> <<>>]

Exists(f) == f.kind # "absent"

\* str(list) as to_csv writes an object cell holding a Python list.
str_list(x) == IF x = "empty" THEN "[]" ELSE "['d']"

\* An empty string and NaN are both written as an empty cell.
CsvError(e) == IF e = 0 THEN NoError ELSE e

CsvRow(r) == [key |-> r.key, text |-> r.text,
              extracted |-> str_list(r.extracted), error |-> CsvError(r.error)]

to_csv(d) == IF d = <<>> THEN [kind |-> "blank", rows |-> <<>>]
             ELSE [kind |-> "csv", rows |-> [j \in 1..Len(d) |-> CsvRow(d[j])]]

\* json.loads accepts double-quoted JSON only.
IsJson(x) == x \in {"[]", "[\"d\"]"}

safe_json_loads(x) ==
    IF x \in {"", "{}", "[]"} THEN "empty"
    ELSE IF IsJson(x) THEN "drugs"
    ELSE "empty"

ParseRow(c) == [key |-> c.key, text |-> c.text,
                extracted |-> safe_json_loads(c.extracted), error |-> c.error]

\* pd.read_csv with the converters, and the required-columns check.
Loadable(f) == f.kind = "csv"

read_csv(f) == [j \in 1..Len(f.rows) |-> ParseRow(f.rows[j])]

\* What a load of the file yields when it is the checkpoint.
FileRecords(f) == IF Loadable(f) THEN read_csv(f) ELSE <<>>

\* The unique_key column of a file that has one.
HeldKeys(f) == IF f.kind \in {"csv", "nocol"} THEN KeysOf(f.rows) ELSE {}

(***************************************************************************)
(* The backup directory: the files checkpoint_backup_<timestamp>.csv in    *)
(* name order (oldest first).  A copy made in the same second as the       *)
(* newest backup has its name and overwrites it.                           *)
(***************************************************************************)
PutBackup(bs, f, sameSecond) ==
    IF sameSecond /\ bs # <<>> THEN [bs EXCEPT ![Len(bs)] = f]
    ELSE Append(bs, f)

\* A prune that removes nothing.
PruneNothing(bs) == bs

\* backup_files[:-5] are removed when there are more than 5.
PruneLive(bs) ==
    IF Len(bs) > KEEP_BACKUPS
    THEN SubSeq(bs, Len(bs) - KEEP_BACKUPS + 1, Len(bs))
    ELSE bs

(***************************************************************************)
(* The generation collaborator's answer for a batch: it raises with a      *)
(* message of some length, or returns one response per prompt.             *)
(***************************************************************************)
MsgLens == {0, ShortMsg, ERR_LIMIT + 1}

ResponseKinds == {"ok", "garbled", "null_drugs"}

Outcomes(n) ==
    [raises : {TRUE}, msg : MsgLens, resp : {<<>>}]
    \cup [raises : {FALSE}, msg : {0}, resp : [1..n -> ResponseKinds]]

\* The answers that differ in what run_pipeline does next: the call raises,
\* every response is well-formed, or every response has drugs = null.
CoarseOutcomes(n) ==
    { o \in Outcomes(n) :
        IF o.raises THEN o.msg = ERR_LIMIT + 1
        ELSE \E k \in {"ok", "null_drugs"} : \A j \in 1..n : o.resp[j] = k }

NoOutcome == [raises |-> FALSE, msg |-> 0, resp |-> <<>>]

\* str(e)[:200]
Truncate(n) == Min(n, ERR_LIMIT)

ErrorRecord(row, n) ==
    [key |-> row.key, text |-> row.text, extracted |-> "empty", error |-> Truncate(n)]

\* One response of the zip loop: a parsed object, or the inner except.
ResultRecord(row, kind) ==
    CASE kind = "ok" ->
           [key |-> row.key, text |-> row.text, extracted |-> "drugs", error |-> NoError]
      [] kind = "null_drugs" ->
           [key |-> row.key, text |-> row.text, extracted |-> "null", error |-> NoError]
      [] OTHER -> ErrorRecord(row, ShortMsg)

process_batch(batch, o) ==
    IF o.raises
    THEN [j \in 1..Len(batch) |-> ErrorRecord(batch[j], o.msg)]
    ELSE [j \in 1..Min(Len(batch), Len(o.resp)) |-> ResultRecord(batch[j], o.resp[j])]

\* pd.merge(batch, batch_results, on=[unique_key, text_concat], how="left")
Matches(b, results) ==
    SelectSeq(results, LAMBDA r : r.key = b.key /\ r.text = b.text)

MergeRow(b, results) ==
    IF Matches(b, results) = <<>>
    THEN <<[key |-> b.key, text |-> b.text, extracted |-> "nan", error |-> NoError]>>
    ELSE Matches(b, results)

pd_merge(batch, results) ==
    Flatten([j \in 1..Len(batch) |-> MergeRow(batch[j], results)])

\* compute_metrics iterates extracted_drugs: None and NaN raise TypeError.
MetricsRaise(rows) == \E j \in 1..Len(rows) : rows[j].extracted \in {"null", "nan"}

\* Only the first record of each slice of todo.
BatchHeadOnly(td, off) == SubSeq(td, off + 1, off + 1)

\* todo.iloc[i:i+BATCH_SIZE]
BatchAt(td, off) == SubSeq(td, off + 1, Min(off + BATCH_SIZE, Len(td)))

\* The backlog computed without the processed keys.
BacklogAll(rw, keys) == rw

\* raw_data[~raw_data.unique_key.isin(processed_keys)]
Backlog(rw, keys) == SelectSeq(rw, LAMBDA r : r.key \notin keys)

(***************************************************************************)
(* State.                                                                  *)
(***************************************************************************)
VARIABLES
    raw,            \* the rows of DATA_FILE
    textColumn,     \* DATA_FILE has a text_concat column
    disk,           \* the file at CHECKPOINT_FILE
    tmp,            \* the file at CHECKPOINT_FILE.tmp
    quarantined,    \* the file at CHECKPOINT_FILE.corrupted
    backups,        \* the checkpoint_backup_* files of BACKUP_DIR, by name
    status,         \* idle, running, done, failed, crashed
    pc,             \* position of the process in run_pipeline
    runs,           \* runs started so far
    df,             \* run_pipeline's accumulated DataFrame
    processed_keys, \* set(df.unique_key) as loaded
    todo,           \* the backlog
    i,              \* the batch loop's offset into todo
    attempt,        \* process_with_retry's loop variable
    outcome,        \* what the generator did in its last call
    batch_results,  \* what process_with_retry returned
    merged,         \* the merged batch
    errAt,          \* where the exception of this run was raised
    saveFrom,       \* the call site of save_checkpoint: loop or handler
    genCalls,       \* calls of the generator for the current batch
    everHeld,       \* every key a checkpoint file that loads has held
    call,           \* a direct call of a library function: its name and arguments
    ret             \* what the call returned

vars == <<raw, textColumn, disk, tmp, quarantined, backups, status, pc, runs, df,
          processed_keys, todo, i, attempt, outcome, batch_results, merged, errAt,
          saveFrom, genCalls, everHeld, call, ret>>

files == <<disk, tmp, quarantined, backups>>
library == <<call, ret>>
\* What run_pipeline reads and its steps leave alone.
input == <<raw, textColumn, library>>

\* No library function is being called directly.
NoCall == [fn |-> "none"]

NoReturn == [calls |-> 0]
locals == <<df, processed_keys, todo, i, attempt, outcome, batch_results, merged>>

\* A checkpoint file left by other means than this pipeline: one that does
\* not parse, or one that holds the raw records but no extracted_drugs column.
ForeignCheckpoints(rw) ==
    {Garbage} \cup
    (IF rw = <<>> THEN {}
     ELSE {[kind |-> "nocol",
            rows |-> [j \in 1..Len(rw) |->
                        [key |-> rw[j].key, text |-> rw[j].text,
                         extracted |-> "[]", error |-> NoError]]]})

\* The installations a first run can find: a fresh one, or a backup
\* directory at its retention limit beside a checkpoint that will not load.
Installations(rw) ==
    {[disk |-> Absent, backups |-> <<>>]} \cup
    {[disk |-> f, backups |-> [j \in 1..KEEP_BACKUPS |-> OldBackup]] :
        f \in ForeignCheckpoints(rw)}

InitProcess ==
    /\ tmp = Absent
    /\ quarantined = Absent
    /\ status = "idle"
    /\ pc = "start"
    /\ runs = 0
    /\ df = <<>>
    /\ processed_keys = {}
    /\ todo = <<>>
    /\ i = 0
    /\ attempt = 0
    /\ outcome = NoOutcome
    /\ batch_results = <<>>
    /\ merged = <<>>
    /\ errAt = "none"
    /\ saveFrom = "none"
    /\ genCalls = 0
    /\ everHeld = KeysOf(FileRecords(disk))

Init ==
    /\ raw \in RawDatasetsOver({1})
    /\ \E inst \in Installations(raw) :
         /\ disk = inst.disk
         /\ backups = inst.backups
    /\ textColumn \in (IF disk = Absent THEN BOOLEAN ELSE {TRUE})
    /\ InitProcess
    /\ call = NoCall
    /\ ret = NoReturn

\* A fresh installation and a dataset whose repeated keys come with the same
\* or with another text.
InitRecords ==
    /\ raw \in RawDatasetsOver(Texts)
    /\ disk = Absent
    /\ backups = <<>>
    /\ textColumn = TRUE
    /\ InitProcess
    /\ call = NoCall
    /\ ret = NoReturn

Running(at) == status = "running" /\ pc = at

(***************************************************************************)
(* run_pipeline is started (python main.py), also again after a run ended. *)
(***************************************************************************)
StartRun ==
    /\ status \in {"idle", "done", "failed", "crashed"}
    /\ runs < MaxRuns
    /\ runs' = runs + 1
    /\ status' = "running"
    /\ pc' = "load"
    /\ df' = <<>>
    /\ processed_keys' = {}
    /\ todo' = <<>>
    /\ i' = 0
    /\ attempt' = 0
    /\ outcome' = NoOutcome
    /\ batch_results' = <<>>
    /\ merged' = <<>>
    /\ errAt' = "none"
    /\ saveFrom' = "none"
    /\ genCalls' = 0
    /\ UNCHANGED <<input, files, everHeld>>

(***************************************************************************)
(* load_checkpoint.                                                        *)
(***************************************************************************)
\* No file, or a file that parses and has the required columns.
LoadPlain ==
    /\ Running("load")
    /\ ~Exists(disk) \/ Loadable(disk)
    /\ df' = FileRecords(disk)
    /\ pc' = "backlog"
    /\ UNCHANGED <<input, files, status, runs, processed_keys, todo, i, attempt,
                   outcome, batch_results, merged, errAt, saveFrom, genCalls, everHeld>>

\* os.rename(CHECKPOINT_FILE, CHECKPOINT_FILE + ".corrupted")
quarantine_rename ==
    /\ quarantined' = disk
    /\ disk' = Absent

\* The except branch: shutil.copy2 to a timestamped backup, rename, return
\* an empty DataFrame.
LoadQuarantine ==
    /\ Running("load")
    /\ Exists(disk) /\ ~Loadable(disk)
    /\ \E sameSecond \in BOOLEAN : backups' = PutBackup(backups, disk, sameSecond)
    /\ quarantine_rename
    /\ df' = <<>>
    /\ pc' = "backlog"
    /\ UNCHANGED <<input, tmp, status, runs, processed_keys, todo, i, attempt,
                   outcome, batch_results, merged, errAt, saveFrom, genCalls, everHeld>>

\* The copy raises: "Failed to create backup" is printed and the rename and
\* the return follow all the same.
LoadQuarantineNoBackup ==
    /\ Running("load")
    /\ Exists(disk) /\ ~Loadable(disk)
    /\ quarantine_rename
    /\ df' = <<>>
    /\ pc' = "backlog"
    /\ UNCHANGED <<input, tmp, backups, status, runs, processed_keys, todo, i, attempt,
                   outcome, batch_results, merged, errAt, saveFrom, genCalls, everHeld>>

\* os.rename raises: it is outside the inner try, so load_checkpoint raises
\* and with it run_pipeline.  The copy was made, or had failed before.
LoadRenameFails ==
    /\ Running("load")
    /\ Exists(disk) /\ ~Loadable(disk)
    /\ \E copyOk \in BOOLEAN, sameSecond \in BOOLEAN :
         backups' = IF copyOk THEN PutBackup(backups, disk, sameSecond) ELSE backups
    /\ status' = "failed"
    /\ errAt' = "load"
    /\ UNCHANGED <<input, disk, tmp, quarantined, pc, runs, locals, saveFrom,
                   genCalls, everHeld>>

(***************************************************************************)
(* run_pipeline, lines 82-103: the backlog, and the no-op run.             *)
(***************************************************************************)
ComputeBacklog ==
    /\ Running("backlog")
    /\ processed_keys' = KeysOf(df)
    /\ todo' = Backlog(raw, KeysOf(df))
    /\ pc' = IF Backlog(raw, KeysOf(df)) = <<>> THEN "noop" ELSE "attempt"
    /\ i' = 0
    /\ attempt' = 0
    /\ genCalls' = 0
    /\ UNCHANGED <<input, files, status, runs, df, outcome, batch_results, merged,
                   errAt, saveFrom, everHeld>>

\* print_avg_metrics reads df['precision']: a KeyError on pd.DataFrame().
PrintRaises(d) == d = <<>>

\* if todo.empty: print_avg_metrics(df); return df
ReportNoop ==
    /\ Running("noop")
    /\ status' = IF PrintRaises(df) THEN "failed" ELSE "done"
    /\ errAt' = IF PrintRaises(df) THEN "report" ELSE errAt
    /\ UNCHANGED <<input, files, pc, runs, locals, saveFrom, genCalls, everHeld>>

(***************************************************************************)
(* process_with_retry: one pass of its loop is one call of process_batch.  *)
(***************************************************************************)
batch == BatchAt(todo, i)

\* process_batch builds the prompts from batch_df["text_concat"] before its
\* try: without that column it raises a KeyError and calls no generator.
ProcessBatchRaises == ~textColumn

\* The call returns: the generator was called once, and whatever it did,
\* raising included, process_batch returned a DataFrame.
ProcessBatchWith(outs) ==
    /\ Running("attempt")
    /\ ~ProcessBatchRaises
    /\ \E o \in outs :
         /\ outcome' = o
         /\ batch_results' = process_batch(batch, o)
    /\ genCalls' = genCalls + 1
    /\ pc' = "merge"
    /\ UNCHANGED <<input, files, status, runs, df, processed_keys, todo, i, attempt,
                   merged, errAt, saveFrom, everHeld>>

ProcessBatch == ProcessBatchWith(CoarseOutcomes(Len(batch)))

ProcessBatchAny == ProcessBatchWith(Outcomes(Len(batch)))

\* The except branch of process_with_retry before the last attempt:
\* time.sleep(RETRY_DELAY), next attempt.
RetrySleep ==
    /\ Running("attempt")
    /\ ProcessBatchRaises
    /\ attempt # MAX_RETRIES - 1
    /\ attempt' = attempt + 1
    /\ UNCHANGED <<input, files, status, pc, runs, df, processed_keys, todo, i,
                   outcome, batch_results, merged, errAt, saveFrom, genCalls, everHeld>>

\* The last attempt raises to run_pipeline's except branch.
RetryExhausted ==
    /\ Running("attempt")
    /\ ProcessBatchRaises
    /\ attempt = MAX_RETRIES - 1
    /\ errAt' = "retry"
    /\ pc' = "handler"
    /\ UNCHANGED <<input, files, status, runs, locals, saveFrom, genCalls, everHeld>>

(***************************************************************************)
(* run_pipeline, lines 116-158: merge, metrics, concat.                    *)
(***************************************************************************)
MergeAndMetrics ==
    /\ Running("merge")
    /\ merged' = pd_merge(batch, batch_results)
    /\ IF MetricsRaise(pd_merge(batch, batch_results))
       THEN /\ errAt' = "merge"
            /\ pc' = "handler"
            /\ UNCHANGED <<df, saveFrom>>
       ELSE /\ df' = df \o pd_merge(batch, batch_results)
            /\ pc' = "save_backup"
            /\ saveFrom' = "loop"
            /\ UNCHANGED errAt
    /\ UNCHANGED <<input, files, status, runs, processed_keys, todo, i, attempt,
                   outcome, batch_results, genCalls, everHeld>>

\* The except branch swallowing the exception and going on with the loop.
HandlerContinues ==
    /\ pc' = "saved"
    /\ saveFrom' = "loop"
    /\ UNCHANGED <<i, attempt, genCalls>>

\* except Exception: ... save_checkpoint(df)
HandlerSaves ==
    /\ pc' = "save_backup"
    /\ saveFrom' = "handler"
    /\ UNCHANGED <<i, attempt, genCalls>>

Handler ==
    /\ Running("handler")
    /\ HandlerSaves
    /\ UNCHANGED <<input, files, status, runs, df, processed_keys, todo, outcome,
                   batch_results, merged, errAt, everHeld>>

(***************************************************************************)
(* save_checkpoint, step by step: a crash or an exception can fall between *)
(* any two of them.                                                        *)
(***************************************************************************)
\* if os.path.exists(CHECKPOINT_FILE): shutil.copy2 starts writing
\* get_backup_filename().
SaveBackup ==
    /\ Running("save_backup")
    /\ IF Exists(disk)
       THEN /\ \E sameSecond \in BOOLEAN :
                 backups' = PutBackup(backups, Partial, sameSecond)
            /\ pc' = "save_copying"
       ELSE /\ pc' = "save_write"
            /\ UNCHANGED backups
    /\ UNCHANGED <<input, disk, tmp, quarantined, status, runs, locals, errAt,
                   saveFrom, genCalls, everHeld>>

\* shutil.copy2 completes: the newest backup is a copy of the checkpoint.
SaveCopyDone ==
    /\ Running("save_copying")
    /\ backups' = [backups EXCEPT ![Len(backups)] = disk]
    /\ pc' = "save_write"
    /\ UNCHANGED <<input, disk, tmp, quarantined, status, runs, locals, errAt,
                   saveFrom, genCalls, everHeld>>

\* to_csv writing straight into the checkpoint path.
open_target ==
    /\ disk' = Partial
    /\ UNCHANGED tmp

\* atomic_write: df.to_csv(temp_file) opens filename + ".tmp" and starts
\* writing it.
open_temp ==
    /\ tmp' = Partial
    /\ UNCHANGED disk

SaveWriteTmp ==
    /\ Running("save_write")
    /\ open_temp
    /\ pc' = "save_writing"
    /\ UNCHANGED <<input, quarantined, backups, status, runs, locals, errAt,
                   saveFrom, genCalls, everHeld>>

\* df.to_csv(temp_file) completes.
SaveWriteDone ==
    /\ Running("save_writing")
    /\ tmp' = to_csv(df)
    /\ pc' = "save_replace"
    /\ UNCHANGED <<input, disk, quarantined, backups, status, runs, locals, errAt,
                   saveFrom, genCalls, everHeld>>

\* os.replace that leaves the target as it was.
replace_dropped ==
    /\ disk' = disk
    /\ tmp' = Absent

\* os.replace(temp_file, filename)
atomic_replace ==
    /\ disk' = tmp
    /\ tmp' = Absent

SaveReplace ==
    /\ Running("save_replace")
    /\ atomic_replace
    /\ everHeld' = everHeld \cup KeysOf(FileRecords(disk'))
    /\ pc' = "save_prune"
    /\ UNCHANGED <<input, quarantined, backups, status, runs, locals, errAt,
                   saveFrom, genCalls>>

\* Clean up old backups (keep last 5); save_checkpoint returns.
SavePrune ==
    /\ Running("save_prune")
    /\ backups' = PruneLive(backups)
    /\ pc' = "saved"
    /\ UNCHANGED <<input, disk, tmp, quarantined, status, runs, locals, errAt,
                   saveFrom, genCalls, everHeld>>

\* An operation of save_checkpoint raises: the copy, the write of the
\* temporary file, the replace, or a removal of the prune.  atomic_write's
\* except removes the temporary file; save_checkpoint re-raises.
SaveCanFail ==
    \/ pc = "save_backup" /\ Exists(disk)
    \/ pc \in {"save_copying", "save_write", "save_writing", "save_replace"}
    \/ pc = "save_prune" /\ Len(backups) > KEEP_BACKUPS

SaveFails ==
    /\ status = "running"
    /\ SaveCanFail
    /\ tmp' = IF pc \in {"save_write", "save_writing", "save_replace"} THEN Absent ELSE tmp
    /\ IF saveFrom = "loop"
       THEN /\ errAt' = "save"
            /\ pc' = "handler"
            /\ UNCHANGED status
       ELSE /\ status' = "failed"
            /\ UNCHANGED <<errAt, pc>>
    /\ UNCHANGED <<input, disk, quarantined, backups, runs, locals, saveFrom,
                   genCalls, everHeld>>

(***************************************************************************)
(* After save_checkpoint returned.                                         *)
(***************************************************************************)
\* for i in range(0, total_records, BATCH_SIZE): the next batch.
NextBatch ==
    /\ Running("saved")
    /\ saveFrom = "loop"
    /\ i + BATCH_SIZE < Len(todo)
    /\ i' = i + BATCH_SIZE
    /\ attempt' = 0
    /\ genCalls' = 0
    /\ pc' = "attempt"
    /\ UNCHANGED <<input, files, status, runs, df, processed_keys, todo, outcome,
                   batch_results, merged, errAt, saveFrom, everHeld>>

\* The loop is over: the final report, return df.
Finish ==
    /\ Running("saved")
    /\ saveFrom = "loop"
    /\ ~(i + BATCH_SIZE < Len(todo))
    /\ status' = IF PrintRaises(df) THEN "failed" ELSE "done"
    /\ errAt' = IF PrintRaises(df) THEN "report" ELSE errAt
    /\ UNCHANGED <<input, files, pc, runs, locals, saveFrom, genCalls, everHeld>>

\* The except branch ending without its raise: run_pipeline goes on to the
\* final report.
ReturnsNormally ==
    /\ Running("saved")
    /\ saveFrom = "handler"
    /\ status' = "done"
    /\ UNCHANGED <<input, files, pc, runs, locals, errAt, saveFrom, genCalls, everHeld>>

\* The raise that ends the except branch.
Reraise ==
    /\ Running("saved")
    /\ saveFrom = "handler"
    /\ status' = "failed"
    /\ UNCHANGED <<input, files, pc, runs, locals, errAt, saveFrom, genCalls, everHeld>>

\* The process dies: memory is lost, the files stay as they are.
Crash ==
    /\ status = "running"
    /\ status' = "crashed"
    /\ UNCHANGED <<input, files, pc, runs, locals, errAt, saveFrom, genCalls, everHeld>>

(***************************************************************************)
(* The pipeline with storage faults, crashes and a dataset that may lack   *)
(* its text column; the generator raises or answers uniformly.             *)
(***************************************************************************)
Next ==
    \/ StartRun
    \/ LoadPlain
    \/ LoadQuarantine
    \/ LoadQuarantineNoBackup
    \/ LoadRenameFails
    \/ ComputeBacklog
    \/ ReportNoop
    \/ ProcessBatch
    \/ RetrySleep
    \/ RetryExhausted
    \/ MergeAndMetrics
    \/ Handler
    \/ SaveBackup
    \/ SaveCopyDone
    \/ SaveWriteTmp
    \/ SaveWriteDone
    \/ SaveReplace
    \/ SavePrune
    \/ SaveFails
    \/ NextBatch
    \/ Finish
    \/ Reraise
    \/ Crash

Spec == Init /\ [][Next]_vars

(***************************************************************************)
(* The pipeline on a storage that works, with every answer the generator   *)
(* can give, record by record.                                             *)
(***************************************************************************)
NextRecords ==
    \/ StartRun
    \/ LoadPlain
    \/ LoadQuarantine
    \/ ComputeBacklog
    \/ ReportNoop
    \/ ProcessBatchAny
    \/ MergeAndMetrics
    \/ Handler
    \/ SaveBackup
    \/ SaveCopyDone
    \/ SaveWriteTmp
    \/ SaveWriteDone
    \/ SaveReplace
    \/ SavePrune
    \/ NextBatch
    \/ Finish
    \/ Reraise

SpecRecords == InitRecords /\ [][NextRecords]_vars

(***************************************************************************)
(* The library functions, called directly: DrugNormalizer,                 *)
(* RegimenDrugMapper (drug_normalizer.py) and the metrics (metrics.py).    *)
(* A string is a sequence of characters; fuzzywuzzy's scores are inputs of *)
(* the call, as is the table the object was built with.                    *)
(***************************************************************************)
\* Size of a synonym or regimen table, and length of a list argument.
MaxTable == 2
MaxList == 2

DRUG_THRESHOLD == 85
REGIMEN_THRESHOLD == 70
FULL_SCORE == 100

\* The value None, told from every string.
None == <<"None">>

\* str.lower()
lower_char(c) == IF c = "A" THEN "a" ELSE c

lower(s) == [j \in 1..Len(s) |-> lower_char(s[j])]

RECURSIVE lstrip(_)
lstrip(s) == IF s # <<>> /\ Head(s) = " " THEN lstrip(Tail(s)) ELSE s

RECURSIVE rstrip(_)
rstrip(s) == IF s # <<>> /\ s[Len(s)] = " " THEN rstrip(SubSeq(s, 1, Len(s) - 1)) ELSE s

\* str.strip()
strip(s) == rstrip(lstrip(s))

\* The strings given as names: empty, blank, padded, upper and lower case.
Names == {<<>>, <<" ">>, <<"a">>, <<"A">>, <<"b">>, <<" ", "a">>, <<"A", " ">>,
          <<"a", "b">>, <<"A", "b">>, <<"b", "a">>}

\* A dict in insertion order: a sequence of entries with distinct keys.
DictsOver(K, V) ==
    UNION { { t \in [1..n -> [key : K, val : V]] :
                \A a, b \in 1..n : t[a].key = t[b].key => a = b }
            : n \in 0..MaxTable }

Has(t, k) == \E j \in 1..Len(t) : t[j].key = k

Lookup(t, k) == t[CHOOSE j \in 1..Len(t) : t[j].key = k].val

\* t[k] = v
Put(t, k, v) ==
    IF Has(t, k)
    THEN [j \in 1..Len(t) |-> IF t[j].key = k THEN [key |-> k, val |-> v] ELSE t[j]]
    ELSE Append(t, [key |-> k, val |-> v])

SynonymKeys == {<<"a">>, <<"b">>, <<"a", "b">>}
Generics == {<<"a">>, <<"B">>}

SynonymMaps == DictsOver(SynonymKeys, Generics)

\* fuzz.ratio of a name against the keys of a table, in table order: 100
\* for the key equal to the name and less for any other.
RatioValues == {0, DRUG_THRESHOLD - 1, DRUG_THRESHOLD, FULL_SCORE - 1}

RatiosOf(n, t, values) ==
    { sc \in [1..Len(t) -> values \cup {FULL_SCORE}] :
        \A j \in 1..Len(t) : (sc[j] = FULL_SCORE) <=> (t[j].key = n) }

(***************************************************************************)
(* DrugNormalizer._find_best_match                                         *)
(***************************************************************************)
\* The loop over synonym_map.items() from entry j on.
RECURSIVE BestAfter(_, _, _, _)
BestAfter(t, sc, j, best) ==
    IF j > Len(t) THEN best
    ELSE BestAfter(t, sc, j + 1,
                   IF sc[j] > best.score
                   THEN [score |-> sc[j], match |-> t[j].val]
                   ELSE best)

find_best_match(drug_name, t, threshold, sc) ==
    IF strip(drug_name) = <<>> THEN drug_name
    ELSE LET name == lower(strip(drug_name))
             best == BestAfter(t, sc, 1, [score |-> 0, match |-> None])
         IN  IF Has(t, name) THEN Lookup(t, name)
             ELSE IF best.score >= threshold THEN best.match
             ELSE name

Thresholds == {0, DRUG_THRESHOLD, FULL_SCORE}

NormalizeCalls ==
    \E n \in Names, t \in SynonymMaps, th \in Thresholds :
        \E sc \in RatiosOf(lower(strip(n)), t, RatioValues) :
            call = [fn |-> "find_best_match", name |-> n, table |-> t, threshold |-> th,
                    fuzz |-> [x \in {lower(strip(n))} |-> sc]]

FindBestMatch ==
    /\ call.fn = "find_best_match"
    /\ ret.calls = 0
    /\ ret' = [calls |-> 1,
               value |-> find_best_match(call.name, call.table, call.threshold,
                                         call.fuzz[lower(strip(call.name))])]
    /\ UNCHANGED <<raw, textColumn, call, files, status, pc, runs, locals, errAt,
                   saveFrom, genCalls, everHeld>>

(***************************************************************************)
(* DrugNormalizer.normalize_drugs                                          *)
(***************************************************************************)
\* The list as it is.
keep_all(xs) == xs

\* seen = set(); [x for x in normalized if not (x in seen or seen.add(x))]
RECURSIVE unique_in_order(_)
unique_in_order(xs) ==
    IF xs = <<>> THEN <<>>
    ELSE LET front == unique_in_order(SubSeq(xs, 1, Len(xs) - 1))
             x == xs[Len(xs)]
         IN  IF \E j \in 1..Len(front) : front[j] = x THEN front ELSE Append(front, x)

\* The values _find_best_match gives the entries, in input order.
normalized_of(drugs, t, threshold, fuzz) ==
    [j \in 1..Len(drugs) |->
        find_best_match(drugs[j], t, threshold,
                        IF strip(drugs[j]) = <<>> THEN <<>> ELSE fuzz[lower(strip(drugs[j]))])]

normalize_drugs(drugs, t, threshold, fuzz) ==
    IF drugs = <<>> THEN <<>>
    ELSE unique_in_order(normalized_of(drugs, t, threshold, fuzz))

ListEntries == {<<"a">>, <<"A">>, <<"b">>, <<" ">>}

DrugLists == UNION { [1..n -> ListEntries] : n \in 0..MaxList }

\* The names fuzz.ratio is asked about.
AskedNames(drugs) == {lower(strip(drugs[j])) : j \in 1..Len(drugs)} \ {<<>>}

ListRatioValues == {DRUG_THRESHOLD - 1, DRUG_THRESHOLD}

FuzzOver(names, t, values) ==
    LET ratios == [n \in names |-> RatiosOf(n, t, values)]
    IN  { f \in [names -> UNION {ratios[n] : n \in names}] :
            \A n \in names : f[n] \in ratios[n] }

NormalizeDrugsCalls ==
    \E d \in DrugLists, t \in SynonymMaps :
        \E f \in FuzzOver(AskedNames(d), t, ListRatioValues) :
            call = [fn |-> "normalize_drugs", drugs |-> d, table |-> t,
                    threshold |-> DRUG_THRESHOLD, fuzz |-> f]

NormalizeDrugs ==
    /\ call.fn = "normalize_drugs"
    /\ ret.calls = 0
    /\ ret' = [calls |-> 1,
               value |-> normalize_drugs(call.drugs, call.table, call.threshold, call.fuzz)]
    /\ UNCHANGED <<raw, textColumn, call, files, status, pc, runs, locals, errAt,
                   saveFrom, genCalls, everHeld>>

(***************************************************************************)
(* DrugNormalizer._load_synonyms                                           *)
(***************************************************************************)
\* The rows of the synonym file: DrugName, and DrugSynonym as split(',')
\* cuts it (never an empty list).
RowNames == {<<"a">>, <<"A">>, <<"b">>, <<"b", " ">>}
RowSynonyms == {<< <<>> >>, << <<"a">> >>, << <<" ", "b">> >>, << <<"a">>, <<"b">> >>}

SynonymRows ==
    UNION { [1..n -> [DrugName : RowNames, DrugSynonym : RowSynonyms]] : n \in 0..MaxTable }

\* for synonym in synonyms: if synonym: synonym_map[synonym.lower()] = generic_name
RECURSIVE add_synonyms(_, _, _)
add_synonyms(t, synonyms, generic_name) ==
    IF synonyms = <<>> THEN t
    ELSE add_synonyms(IF Head(synonyms) # <<>>
                      THEN Put(t, lower(Head(synonyms)), generic_name)
                      ELSE t,
                      Tail(synonyms), generic_name)

\* One pass of the loop over df.iterrows().
add_row(t, row) ==
    LET generic_name == strip(row.DrugName)
        synonyms == Append([j \in 1..Len(row.DrugSynonym) |-> strip(row.DrugSynonym[j])],
                           generic_name)
    IN  add_synonyms(t, synonyms, generic_name)

RECURSIVE load_synonyms(_)
load_synonyms(rows) ==
    IF rows = <<>> THEN <<>>
    ELSE add_row(load_synonyms(SubSeq(rows, 1, Len(rows) - 1)), rows[Len(rows)])

LoadSynonymsCalls == \E r \in SynonymRows : call = [fn |-> "load_synonyms", rows |-> r]

LoadSynonyms ==
    /\ call.fn = "load_synonyms"
    /\ ret.calls = 0
    /\ ret' = [calls |-> 1, value |-> load_synonyms(call.rows)]
    /\ UNCHANGED <<raw, textColumn, call, files, status, pc, runs, locals, errAt,
                   saveFrom, genCalls, everHeld>>

(***************************************************************************)
(* RegimenDrugMapper: _normalize_regimen_name, _fuzzy_match_regimen,       *)
(* get_drugs_from_regimen.  The character "#" stands for one of the words  *)
(* regimen, therapy, protocol in lower case.                               *)
(***************************************************************************)
\* regimen.replace(word, "")
RECURSIVE remove_words(_)
remove_words(s) ==
    IF s = <<>> THEN <<>>
    ELSE IF Head(s) = "#" THEN remove_words(Tail(s))
    ELSE <<Head(s)>> \o remove_words(Tail(s))

normalize_regimen_name(regimen) == strip(remove_words(lower(strip(regimen))))

RegimenNames == {<<>>, <<" ">>, <<"#">>, <<"a">>, <<"A", " ", "#">>, <<"b">>, <<"b", "a">>}

RegimenKeys == {<<"a">>, <<"b">>, <<"a", "b">>}
RegimenDrugs == {<< <<"x">> >>, << <<"x">>, <<"y">> >>}

RegimenMaps == DictsOver(RegimenKeys, RegimenDrugs)

\* fuzz.ratio, fuzz.partial_ratio and fuzz.token_sort_ratio of a name
\* against a key: all 100 for equal strings, all 0 for an empty name.
ScoreTriples(n, key) ==
    IF n = key THEN {[ratio |-> FULL_SCORE, partial |-> FULL_SCORE, token_sort |-> FULL_SCORE]}
    ELSE IF n = <<>> THEN {[ratio |-> 0, partial |-> 0, token_sort |-> 0]}
    ELSE {[ratio |-> 0, partial |-> 0, token_sort |-> 0],
          [ratio |-> REGIMEN_THRESHOLD - 1, partial |-> 0, token_sort |-> 0],
          [ratio |-> 0, partial |-> REGIMEN_THRESHOLD, token_sort |-> 0],
          [ratio |-> REGIMEN_THRESHOLD - 1, partial |-> REGIMEN_THRESHOLD,
           token_sort |-> FULL_SCORE]}

RegimenScores(n, t) ==
    { sc \in [1..Len(t) -> UNION {ScoreTriples(n, t[j].key) : j \in 1..Len(t)}] :
        \A j \in 1..Len(t) : sc[j] \in ScoreTriples(n, t[j].key) }

Max3(a, b, c) == IF a >= b /\ a >= c THEN a ELSE IF b >= c THEN b ELSE c

\* max(ratio_score, partial_score, token_sort_score)
score_of(tr) == Max3(tr.ratio, tr.partial, tr.token_sort)

\* A candidate replaces the best one also when it only equals its score.
better_or_equal(score, best_score, threshold) == score >= best_score /\ score >= threshold

\* if score > best_score and score >= self.threshold
better(score, best_score, threshold) == score > best_score /\ score >= threshold

\* The loop over regimen_map.keys() from entry j on.
RECURSIVE BestRegimenAfter(_, _, _, _, _)
BestRegimenAfter(t, sc, threshold, j, best) ==
    IF j > Len(t) THEN best
    ELSE BestRegimenAfter(t, sc, threshold, j + 1,
                          IF better(score_of(sc[j]), best.score, threshold)
                          THEN [score |-> score_of(sc[j]), match |-> t[j].key]
                          ELSE best)

fuzzy_match_regimen(regimen, t, threshold, sc) ==
    IF regimen = <<>> THEN None
    ELSE IF Has(t, normalize_regimen_name(regimen)) THEN normalize_regimen_name(regimen)
    ELSE BestRegimenAfter(t, sc, threshold, 1, [score |-> 0, match |-> None]).match

get_drugs_from_regimen(regimen, t, threshold, sc) ==
    IF regimen = <<>> THEN <<>>
    ELSE LET matched_regimen == fuzzy_match_regimen(regimen, t, threshold, sc)
         IN  IF matched_regimen # None /\ matched_regimen # <<>>
             THEN Lookup(t, matched_regimen)
             ELSE <<>>

RegimenThresholds == {0, REGIMEN_THRESHOLD}

RegimenCalls ==
    \E n \in RegimenNames, t \in RegimenMaps, th \in RegimenThresholds :
        \E sc \in RegimenScores(normalize_regimen_name(n), t) :
            call = [fn |-> "get_drugs_from_regimen", regimen |-> n, table |-> t,
                    threshold |-> th, scores |-> sc]

\* The same mapper is asked once and once more.
GetDrugsFromRegimen ==
    /\ call.fn = "get_drugs_from_regimen"
    /\ ret.calls < 2
    /\ LET drugs == get_drugs_from_regimen(call.regimen, call.table, call.threshold, call.scores)
           match == fuzzy_match_regimen(call.regimen, call.table, call.threshold, call.scores)
       IN  ret' = [calls |-> ret.calls + 1, value |-> drugs, match |-> match,
                   first |-> IF ret.calls = 0 THEN drugs ELSE ret.first]
    /\ UNCHANGED <<raw, textColumn, call, files, status, pc, runs, locals, errAt,
                   saveFrom, genCalls, everHeld>>

(***************************************************************************)
(* metrics.py: compute_metrics and compute_regimen_metrics.  A ratio is a  *)
(* pair num/den with den > 0.                                              *)
(***************************************************************************)
MetricEntries == {<<>>, <<" ">>, <<"a">>, <<"A">>, <<"b">>, <<"a", " ">>}
TruthEntries == {<<>>, <<" ">>, <<"a">>, <<"a", " ">>}

ListsOver(entries) == UNION { [1..n -> entries] : n \in 0..MaxList }

\* The forms of every entry, the empty ones included.
normalize_all(drugs) == [j \in 1..Len(drugs) |-> lower(strip(drugs[j]))]

\* [str(drug).strip().lower() for drug in drugs if drug]
normalize_drug_list(drugs) ==
    LET kept == SelectSeq(drugs, LAMBDA d : d # <<>>)
    IN  [j \in 1..Len(kept) |-> lower(strip(kept[j]))]

\* set(str(reg).strip().lower() for reg in regimens if reg)
regimen_set(regimens) ==
    {lower(strip(regimens[j])) : j \in {k \in 1..Len(regimens) : regimens[k] # <<>>}}

set(xs) == {xs[j] : j \in 1..Len(xs)}

Zero == [num |-> 0, den |-> 1]

\* a / (a + b) if (a + b) > 0 else 0
share(a, b) == IF a + b > 0 THEN [num |-> a, den |-> a + b] ELSE Zero

\* 2 * (precision * recall) / (precision + recall) if (precision + recall) > 0 else 0
f1_of(p, r) ==
    IF p.num * r.den + r.num * p.den > 0
    THEN [num |-> 2 * p.num * r.num, den |-> p.num * r.den + r.num * p.den]
    ELSE Zero

\* The entries on either side only.
either_side(A, B) == (A \ B) \cup (B \ A)

\* ground_truth_set - extracted_set, extracted_set - ground_truth_set
only_in(A, B) == A \ B

\* [x for x in source if x.lower().strip() in forms]
entries_in(source, forms) == SelectSeq(source, LAMBDA x : lower(strip(x)) \in forms)

metrics_of(extracted, ground_truth, extracted_set, ground_truth_set) ==
    LET true_positives == Cardinality(extracted_set \cap ground_truth_set)
        false_positives == Cardinality(only_in(extracted_set, ground_truth_set))
        false_negatives == Cardinality(only_in(ground_truth_set, extracted_set))
        precision == share(true_positives, false_positives)
        recall == share(true_positives, false_negatives)
    IN  [precision |-> precision,
         recall |-> recall,
         f1 |-> f1_of(precision, recall),
         missing |-> entries_in(ground_truth, only_in(ground_truth_set, extracted_set)),
         hallucinated |-> entries_in(extracted, only_in(extracted_set, ground_truth_set))]

compute_metrics(extracted_drugs, ground_truth) ==
    metrics_of(extracted_drugs, ground_truth,
               set(normalize_drug_list(extracted_drugs)),
               set(normalize_drug_list(ground_truth)))

compute_regimen_metrics(extracted_regimens, ground_truth) ==
    metrics_of(extracted_regimens, ground_truth,
               regimen_set(extracted_regimens), regimen_set(ground_truth))

MetricsCalls ==
    call \in [fn : {"compute_metrics", "compute_regimen_metrics"},
              extracted : ListsOver(MetricEntries), ground_truth : ListsOver(TruthEntries)]

ComputeMetrics ==
    /\ call.fn = "compute_metrics"
    /\ ret.calls = 0
    /\ ret' = [calls |-> 1, value |-> compute_metrics(call.extracted, call.ground_truth)]
    /\ UNCHANGED <<raw, textColumn, call, files, status, pc, runs, locals, errAt,
                   saveFrom, genCalls, everHeld>>

ComputeRegimenMetrics ==
    /\ call.fn = "compute_regimen_metrics"
    /\ ret.calls = 0
    /\ ret' = [calls |-> 1, value |-> compute_regimen_metrics(call.extracted, call.ground_truth)]
    /\ UNCHANGED <<raw, textColumn, call, files, status, pc, runs, locals, errAt,
                   saveFrom, genCalls, everHeld>>

(***************************************************************************)
(* The library under direct calls: one call, with its arguments, per       *)
(* behaviour.                                                              *)
(***************************************************************************)
\* The call is one of the calls above.
LibraryCalls ==
    \/ NormalizeCalls
    \/ NormalizeDrugsCalls
    \/ LoadSynonymsCalls
    \/ RegimenCalls
    \/ MetricsCalls

InitLibrary ==
    /\ raw = <<>>
    /\ textColumn = TRUE
    /\ disk = Absent
    /\ backups = <<>>
    /\ InitProcess
    /\ LibraryCalls
    /\ ret = NoReturn

NextLibrary ==
    \/ FindBestMatch
    \/ NormalizeDrugs
    \/ LoadSynonyms
    \/ GetDrugsFromRegimen
    \/ ComputeMetrics
    \/ ComputeRegimenMetrics

SpecLibrary == InitLibrary /\ [][NextLibrary]_vars

(***************************************************************************)
(* Properties.                                                             *)
(***************************************************************************)
SavePcs == {"save_backup", "save_copying", "save_write", "save_writing",
            "save_replace", "save_prune", "saved"}

\* The rows of a file that are the record r.
Copies(f, r) == {j \in 1..Len(f.rows) : f.rows[j].key = r.key /\ f.rows[j].text = r.text}

\* What a later load makes of the DataFrame d once it is saved.
Reparse(d) == FileRecords(to_csv(d))

\* The loop of a run has ended normally, after at least one batch.
LoopFinished == status = "done" /\ pc = "saved"

EachBacklogRecordOnce ==
    /\ \A j \in 1..Len(todo) : Cardinality(Copies(disk, todo[j])) = 1
    /\ DistinctKeys(disk.rows)

\* C1 as stated: for any raw dataset, when run_pipeline has finished its
\* batch loop every backlog record is exactly once in the checkpoint file
\* and no two rows of the file share a unique_key.
C1_AnyRawDataset == LoopFinished => EachBacklogRecordOnce

\* C1 amended: for a raw dataset whose unique_keys are pairwise distinct,
\* when run_pipeline has finished its batch loop every backlog record is
\* exactly once in the checkpoint file and no two rows share a unique_key.
C1_DistinctRawKeys == (LoopFinished /\ DistinctKeys(raw)) => EachBacklogRecordOnce

\* A resumed run over distinct keys finished its loop.
C1_Witness ==
    /\ LoopFinished
    /\ DistinctKeys(raw)
    /\ processed_keys # {}
    /\ todo # <<>>

\* C2 as stated: a batch whose generator call raised is degraded to
\* empty-result records only after MAX_RETRIES calls of the generator.
C2_RetriesBeforeDegrading ==
    (pc = "merge" /\ outcome.raises) => genCalls = MAX_RETRIES

\* C3 as stated: once a batch whose generator call raised has been saved,
\* every record of the batch is in the checkpoint file with empty
\* extracted_drugs and a non-empty error field, and the DataFrame has grown
\* by the batch size.  Stated for raw datasets with distinct keys.
C3_RaisedBatchRecorded ==
    (Running("saved") /\ saveFrom = "loop" /\ outcome.raises /\ DistinctKeys(raw))
    => /\ \A j \in 1..Len(batch) :
            \E k \in Copies(disk, batch[j]) :
                /\ disk.rows[k].extracted = "[]"
                /\ disk.rows[k].error # NoError
       /\ Len(disk.rows) = Cardinality(processed_keys) + i + Len(batch)

\* The DataFrame has the rows of the batch in progress appended and the
\* save of them has not returned.
Appended == (saveFrom = "loop" /\ pc \in SavePcs \ {"saved"}) \/ errAt = "save"

\* The loaded checkpoint and the rows of the batches before the one in
\* progress.
Completed == IF Appended THEN SubSeq(df, 1, Len(df) - Len(merged)) ELSE df

\* C4: from the load on, in every state of a run, a crashed one included,
\* a load of the checkpoint file yields the loaded checkpoint plus the rows
\* of every completed batch, with or without the rows of the batch in
\* progress; once the save of a batch has returned it yields them all.
C4_PersistedEveryBatch ==
    pc \notin {"start", "load"} =>
        /\ FileRecords(disk) \in {Reparse(Completed), Reparse(df)}
        /\ ~Appended => FileRecords(disk) = Reparse(df)

\* A crash during the second batch's save: the first batch is on disk.
C4_Witness ==
    /\ status = "crashed"
    /\ pc = "save_writing"
    /\ i > 0
    /\ FileRecords(disk) = Reparse(Completed)
    /\ Len(Completed) = i

\* The backlog this run has, or will find, is empty, and the checkpoint is
\* absent or loads.
NothingToDo ==
    /\ status = "running"
    /\ CASE pc = "load" -> /\ ~Exists(disk) \/ Loadable(disk)
                           /\ KeysOf(raw) \subseteq KeysOf(FileRecords(disk))
         [] pc \in {"backlog", "noop"} -> KeysOf(raw) \subseteq KeysOf(df)
         [] OTHER -> FALSE

\* C5 as stated: a run whose backlog is empty calls no generator, writes
\* no file and no backup, and does not fail.
C5_NoopRun ==
    [][NothingToDo => /\ files' = files
                      /\ genCalls' = genCalls
                      /\ status' # "failed"]_vars

\* A call of the generator is made in this step.
GeneratorCalled == genCalls' = genCalls + 1

\* C6 as stated: no step of any run removes a key from the unique_key
\* column of the checkpoint file, and no batch sent to the generator holds
\* a key that a checkpoint has held.
C6_KeysNeverLost ==
    [][/\ HeldKeys(disk) \subseteq HeldKeys(disk')
       /\ GeneratorCalled => KeysOf(batch) \cap (everHeld \cup HeldKeys(disk)) = {}]_vars

\* C6 amended: a step from a checkpoint file that loads keeps every key of
\* it in the file, and, the raw unique_keys being pairwise distinct, no
\* batch sent to the generator holds a key that a loaded checkpoint has
\* held.
C6_KeysKeptWhileLoadable ==
    [][/\ Loadable(disk) =>
            /\ Loadable(disk')
            /\ KeysOf(FileRecords(disk)) \subseteq KeysOf(FileRecords(disk'))
       /\ (GeneratorCalled /\ DistinctKeys(raw)) => KeysOf(batch) \cap everHeld = {}]_vars

\* A second run sends a batch to the generator while the checkpoint holds
\* the keys of an earlier run.
C6_Witness ==
    /\ runs = 2
    /\ pc = "merge"
    /\ genCalls = 1
    /\ DistinctKeys(raw)
    /\ processed_keys # {}
    /\ processed_keys \subseteq everHeld

\* C7: the checkpoint path never holds a partially written file; a step
\* changes it only by replacing it whole with the complete CSV of df or by
\* moving an unloadable file to the .corrupted path; during a save a
\* checkpoint that exists goes on existing.  A crash between any two steps
\* therefore finds the complete old or the complete new content.
C7_CrashSafeSave ==
    [][/\ disk'.kind # "partial"
       /\ disk' # disk =>
            \/ pc = "save_replace" /\ disk' = to_csv(df)
            \/ pc = "load" /\ ~Loadable(disk) /\ disk' = Absent /\ quarantined' = disk
       /\ (pc \in SavePcs /\ Exists(disk)) => Exists(disk')]_vars

\* A crash while the temporary file is half written, next to a checkpoint
\* that loads and a complete backup of it.
C7_Witness ==
    /\ status = "crashed"
    /\ pc = "save_writing"
    /\ tmp = Partial
    /\ Loadable(disk)
    /\ backups # <<>>
    /\ backups[Len(backups)] = disk

\* C8 as stated: at any time the backup directory holds at most 5 backups.
C8_AtMostFiveAtAnyTime == Len(backups) <= KEEP_BACKUPS

\* C8 amended: when save_checkpoint has returned, and until the next run
\* starts, the backup directory holds at most 5 backups.
C8_AtMostFiveAfterSave == pc = "saved" => Len(backups) <= KEEP_BACKUPS

\* A save has pruned: the directory is full and its newest file is a backup
\* made by this pipeline.
C8_Witness ==
    /\ Running("saved")
    /\ Len(backups) = KEEP_BACKUPS
    /\ backups[KEEP_BACKUPS].kind # "old"
    /\ backups[1].kind = "old"

\* C9 as stated: load_checkpoint on a file that does not load never raises:
\* it leaves no file at the checkpoint path, the file at the .corrupted
\* path, and returns an empty DataFrame; with no file it returns an empty
\* DataFrame and changes no file.
C9_LoadNeverRaises ==
    [][(Running("load") /\ status' # "crashed" /\ ~Loadable(disk)) =>
          /\ status' = "running"
          /\ pc' = "backlog"
          /\ df' = <<>>
          /\ IF Exists(disk)
             THEN /\ disk' = Absent
                  /\ quarantined' = disk
             ELSE files' = files]_vars

\* C10: after an error in a batch's merge or metric computation the run
\* goes through the handler and its save only, never to another batch and
\* never to DONE; the rows of every earlier batch stay in the checkpoint
\* file throughout, and when the error has propagated a load of the file
\* yields df, the progress so far.
C10_MergeErrorPersistsProgress ==
    errAt = "merge" =>
        /\ pc \in {"handler"} \cup SavePcs
        /\ status \in {"running", "failed", "crashed"}
        /\ \A j \in 1..i : Copies(disk, todo[j]) # {}
        /\ status = "failed" => FileRecords(disk) = Reparse(df)

\* The second batch failed in the metrics; the run has ended FAILED with the
\* first batch in the checkpoint.
C10_Witness ==
    /\ status = "failed"
    /\ errAt = "merge"
    /\ pc = "saved"
    /\ i > 0
    /\ Loadable(disk)
    /\ Len(disk.rows) >= i

\* C11: once an operation of save_checkpoint has raised in the loop, the
\* run is in the except branch or in the save that branch makes, never at
\* another batch; a run that is in or past the except branch's save has
\* not ended DONE, and a run that ended DONE met no error.
C11_FailedSaveIsFatal ==
    /\ errAt = "save" =>
          /\ pc \in {"handler"} \cup SavePcs
          /\ pc \in SavePcs => saveFrom = "handler"
          /\ status \in {"running", "failed", "crashed"}
    /\ (saveFrom = "handler" /\ pc \in SavePcs) => status # "done"
    /\ status = "done" => errAt = "none"

\* The save of the second batch failed in the loop, the except branch's
\* save went through, and the error reached the caller.
C11_Witness ==
    /\ status = "failed"
    /\ errAt = "save"
    /\ pc = "saved"
    /\ i > 0
    /\ FileRecords(disk) = Reparse(df)

\* C12 as stated: when save_checkpoint(df) has returned, load_checkpoint()
\* yields the records of df with equal field values, the list-valued
\* extracted_drugs included.
C12_RoundTrip == Running("saved") => FileRecords(disk) = df

\* A response that is not an object with a list of strings under drugs.
Malformed(kind) == kind \in {"garbled", "null_drugs"}

\* C13 as stated: a batch that the generator answered with a malformed
\* result among its responses is not aborted: it goes to its save without
\* an error, and once saved each of its records is in the checkpoint file,
\* the malformed ones with empty extracted_drugs and an error.  Stated for
\* raw datasets with distinct keys.
C13_MalformedResultKeepsBatch ==
    (/\ DistinctKeys(raw)
     /\ ~outcome.raises
     /\ \E j \in 1..Len(outcome.resp) : Malformed(outcome.resp[j])
     /\ pc \in {"handler"} \cup SavePcs)
    => /\ errAt = "none"
       /\ saveFrom = "loop"
       /\ pc = "saved" =>
            \A j \in 1..Len(batch) :
                \E k \in Copies(disk, batch[j]) :
                    Malformed(outcome.resp[j]) =>
                        /\ disk.rows[k].extracted = "[]"
                        /\ disk.rows[k].error # NoError

\* A direct call of fn has returned.
Returned(fn) == call.fn = fn /\ ret.calls > 0

\* The best fuzz.ratio of the name over the keys of the table.
MaxScore(sc) == IF sc = <<>> THEN 0
                ELSE CHOOSE m \in {sc[j] : j \in 1..Len(sc)} : \A j \in 1..Len(sc) : sc[j] <= m

\* C14 as stated: for a non-blank name, a table and a threshold in 0..100,
\* _find_best_match returns the table value of the lowercased-trimmed name
\* when that is a key; otherwise the value of a maximum-scoring key when
\* the maximum is >= threshold; otherwise the lowercased-trimmed name; and
\* never None.
C14_NormalizeNeverAbsent ==
    (Returned("find_best_match") /\ strip(call.name) # <<>>) =>
        LET name == lower(strip(call.name))
            sc == call.fuzz[name]
        IN  /\ ret.value # None
            /\ IF Has(call.table, name) THEN ret.value = Lookup(call.table, name)
               ELSE IF call.table # <<>> /\ MaxScore(sc) >= call.threshold
                    THEN \E j \in 1..Len(sc) : /\ sc[j] = MaxScore(sc)
                                               /\ ret.value = call.table[j].val
               ELSE ret.value = name

\* The position of the first occurrence of x in xs.
FirstAt(xs, x) == CHOOSE j \in 1..Len(xs) : xs[j] = x /\ \A k \in 1..(j - 1) : xs[k] # x

\* C15: normalize_drugs returns the normalized values of the entries, each
\* once, in the order of their first occurrences among the normalized
\* values; an empty list gives an empty list.
C15_NormalizeListNoDuplicates ==
    Returned("normalize_drugs") =>
        LET norm == normalized_of(call.drugs, call.table, call.threshold, call.fuzz)
            out == ret.value
        IN  /\ \A a, b \in 1..Len(out) : out[a] = out[b] => a = b
            /\ {out[j] : j \in 1..Len(out)} = {norm[j] : j \in 1..Len(norm)}
            /\ \A a, b \in 1..Len(out) : a < b => FirstAt(norm, out[a]) < FirstAt(norm, out[b])
            /\ call.drugs = <<>> => out = <<>>

\* Two different names, the second matched by its score only, collapse
\* into one entry.
C15_Witness ==
    /\ Returned("normalize_drugs")
    /\ Len(call.drugs) = 2
    /\ lower(strip(call.drugs[1])) # lower(strip(call.drugs[2]))
    /\ strip(call.drugs[2]) # <<>>
    /\ ~Has(call.table, lower(strip(call.drugs[2])))
    /\ Len(ret.value) = 1

\* C19 as stated: in the table built from any rows, the lowercased
\* canonical name of every row maps to that canonical name.
C19_CanonicalMapsToItself ==
    Returned("load_synonyms") =>
        \A j \in 1..Len(call.rows) :
            LET generic_name == strip(call.rows[j].DrugName)
            IN  /\ Has(ret.value, lower(generic_name))
                /\ Lookup(ret.value, lower(generic_name)) = generic_name

\* The keys of the call's table scoring at least the threshold.
Candidates == {j \in 1..Len(call.table) : score_of(call.scores[j]) >= call.threshold}

\* The first key in table order among the candidates of highest score.
FirstBest ==
    CHOOSE j \in Candidates :
        /\ \A k \in Candidates : score_of(call.scores[k]) <= score_of(call.scores[j])
        /\ \A k \in Candidates : score_of(call.scores[k]) = score_of(call.scores[j]) => j <= k

\* What resolve selects according to C16.
Selected ==
    LET name == normalize_regimen_name(call.regimen)
    IN  IF Has(call.table, name) THEN name
        ELSE IF strip(call.regimen) = <<>> \/ Candidates = {} THEN None
        ELSE call.table[FirstBest].key

SelectionAsStated ==
    /\ ret.match = Selected
    /\ ret.value = IF Selected = None THEN <<>> ELSE Lookup(call.table, Selected)
    /\ ret.calls = 2 => ret.value = ret.first

\* C16 as stated: for every name, table and threshold, resolve selects the
\* normalized name when it is a key, otherwise the first key in table order
\* of highest score among the keys scoring >= threshold, and nothing for a
\* blank name or when no key scores >= threshold; a repeated call gives
\* the same.
C16_ResolveAnyThreshold == Returned("get_drugs_from_regimen") => SelectionAsStated

\* C16 amended: the same for every threshold >= 1.
C16_ResolvePositiveThreshold ==
    (Returned("get_drugs_from_regimen") /\ call.threshold >= 1) => SelectionAsStated

\* Two keys tie at the highest score, above the threshold, for a name that
\* is no key: the first is selected, on both calls.
C16_Witness ==
    /\ Returned("get_drugs_from_regimen")
    /\ ret.calls = 2
    /\ call.threshold >= 1
    /\ Len(call.table) = 2
    /\ ~Has(call.table, normalize_regimen_name(call.regimen))
    /\ score_of(call.scores[1]) = score_of(call.scores[2])
    /\ score_of(call.scores[1]) >= call.threshold
    /\ ret.match = call.table[1].key
    /\ ret.value = call.table[1].val
    /\ call.table[1].val # call.table[2].val

MetricsReturned == Returned("compute_metrics") \/ Returned("compute_regimen_metrics")

\* The lowercased-trimmed forms of all entries of a list.
Forms(xs) == {lower(strip(xs[j])) : j \in 1..Len(xs)}

\* The lowercased-trimmed forms of the entries that are not the empty string.
FormsOfNonEmpty(xs) == {lower(strip(xs[j])) : j \in {k \in 1..Len(xs) : xs[k] # <<>>}}

InUnitInterval(q) == q.den > 0 /\ 0 <= q.num /\ q.num <= q.den

IsOne(q) == q.num = q.den

IsZero(q) == q.num = 0

\* precision, recall and f1 for the sets E and G, as C17 has them.
ScoresFor(E, G) ==
    LET m == ret.value
    IN  /\ InUnitInterval(m.precision) /\ InUnitInterval(m.recall) /\ InUnitInterval(m.f1)
        /\ m.precision.num * Cardinality(E) = Cardinality(E \cap G) * m.precision.den
        /\ m.recall.num * Cardinality(G) = Cardinality(E \cap G) * m.recall.den
        /\ (IsOne(m.precision) /\ IsOne(m.recall)) <=> (E = G /\ E # {})
        /\ (E = {} /\ G = {}) => IsZero(m.precision) /\ IsZero(m.recall) /\ IsZero(m.f1)

\* C17 as stated: with E and G the lowercased-trimmed sets of the two
\* lists, precision, recall and f1 are within [0, 1], precision = recall =
\* 1 iff E = G and both are non-empty, and all three are 0 when E and G
\* are empty.
C17_MetricsOverAllEntries ==
    MetricsReturned => ScoresFor(Forms(call.extracted), Forms(call.ground_truth))

\* C17 amended: the same with E and G the lowercased-trimmed sets of the
\* entries that are not the empty string.
C17_MetricsOverNonEmptyEntries ==
    MetricsReturned =>
        ScoresFor(FormsOfNonEmpty(call.extracted), FormsOfNonEmpty(call.ground_truth))

\* Two lists that differ in case, padding and an empty entry score 1.
C17_Witness ==
    /\ Returned("compute_metrics")
    /\ IsOne(ret.value.precision) /\ IsOne(ret.value.recall) /\ IsOne(ret.value.f1)
    /\ Len(call.extracted) = 2
    /\ Forms(call.extracted) # Forms(call.ground_truth)
    /\ \A j \in 1..Len(call.ground_truth) : call.ground_truth[j] \notin set(call.extracted)

\* missing and hallucinated for the sets E and G, as C18 has them.
ListsFor(E, G) ==
    /\ ret.value.missing = SelectSeq(call.ground_truth, LAMBDA x : lower(strip(x)) \in G \ E)
    /\ ret.value.hallucinated = SelectSeq(call.extracted, LAMBDA x : lower(strip(x)) \in E \ G)

\* C18 as stated: missing is the ground-truth entries, in their order and
\* casing, whose form is in G minus E, and hallucinated the extracted
\* entries whose form is in E minus G, E and G being the lowercased-trimmed
\* sets of the two lists.
C18_ListsOverAllEntries ==
    MetricsReturned => ListsFor(Forms(call.extracted), Forms(call.ground_truth))

\* C18 amended: the same with E and G the lowercased-trimmed sets of the
\* entries that are not the empty string.
C18_ListsOverNonEmptyEntries ==
    MetricsReturned =>
        ListsFor(FormsOfNonEmpty(call.extracted), FormsOfNonEmpty(call.ground_truth))

\* One entry matched across case, one missing and one hallucinated, each
\* reported as it was written.
C18_Witness ==
    /\ Returned("compute_regimen_metrics")
    /\ call.extracted = << <<"A">>, <<"b">> >>
    /\ call.ground_truth = << <<"a", " ">>, <<" ">> >>
    /\ ret.value.missing = << <<" ">> >>
    /\ ret.value.hallucinated = << <<"b">> >>

====
